---- MODULE Spec2Model ----
(***************************************************************************)
(* A model of the PDF merger: merge_pdfs (src/pdf_merger.py) running       *)
(* against a small file system, and the PySide6 window with its            *)
(* MergeWorker thread (src/pyside6_module.py).                             *)
(*                                                                         *)
(* A path is a pair <<directory, base name>>; a file's content is a record *)
(* [kind, pages], pages being the sequence of page payloads of a readable  *)
(* PDF.  PyPDF2 is modelled by what merge_pdfs observes of it: PdfReader   *)
(* raises PdfReadError on an invalid or encrypted file, reader.pages is    *)
(* the page sequence, PdfWriter.add_page appends one page, and             *)
(* PdfWriter.write emits the pages added so far.                           *)
(***************************************************************************)
EXTENDS Integers, Sequences, FiniteSets, TLC

\* ------------------------------------------------------------- bounds
MaxLen == 2
MaxPages == 2

\* -------------------------------------------------------------- paths
Paths == {<<"", "a.pdf">>, <<"", "b.pdf">>, <<"out", "a.pdf">>}
NonStr == <<"<int>", "">>
NoPath == <<"", "">>
OutDirs == {"out"}

IsStr(x) == x[1] # "<int>"
Dirname(p) == p[1]
Basename(p) == p[2]

SeqsUpTo(S, n) == UNION {[1..k -> S] : k \in 0..n}

\* ------------------------------------------------------- file contents
Missing == [kind |-> "missing", pages |-> <<>>]
Pdf(pages) == [kind |-> "pdf", pages |-> pages]
Truncated == [kind |-> "partial", pages |-> <<>>]

OriginalPages(p, n) == [k \in 1..n |-> <<p, k - 1>>]

InitContent(p) ==
    {[kind |-> k, pages |-> <<>>] : k \in {"missing", "dir", "bad", "enc", "locked"}}
    \cup {Pdf(OriginalPages(p, n)) : n \in 0..MaxPages}

VARIABLES
    fs, dirs, fs0, dirs0,
    input_type, input_paths, output_path,
    pc, i, pdf_writer, exc, log,
    input_files, output_file,
    btn_merge, btn_select_input, btn_select_output, label_status,
    w_input_paths, w_output_path, wpc, queue, emitted, msgbox, active

fsVars == <<fs, dirs>>
callVars == <<fs0, dirs0, input_type, input_paths, output_path>>
mergeVars == <<pc, i, pdf_writer, exc, log>>
guiVars == <<input_files, output_file, btn_merge, btn_select_input,
             btn_select_output, label_status, msgbox>>
workerVars == <<w_input_paths, w_output_path, wpc, queue, emitted, active>>
vars == <<fsVars, callVars, mergeVars, guiVars, workerVars>>

NoExc == [type |-> "none", name |-> NoPath]

\* ------------------------------------------------------ os.path / open
Exists(p) == fs[p].kind # "missing"
\* Mutant: the isfile check of lines 33-34 is left out.
IsFileUnchecked(p) == TRUE

IsFile(p) == fs[p].kind \notin {"missing", "dir"}

Ev(kind, a, b) == <<kind, a, b>>

Raise(type, name) ==
    /\ pc' = "raised"
    /\ exc' = [type |-> type, name |-> name]

\* The first path of the list that fails a check of lines 31-34, 0 if none.
RECURSIVE FirstBadFrom(_, _)
FirstBadFrom(paths, k) ==
    IF k > Len(paths) THEN 0
    ELSE IF ~Exists(paths[k]) \/ ~IsFile(paths[k]) THEN k
    ELSE FirstBadFrom(paths, k + 1)

FirstBad(paths) == FirstBadFrom(paths, 1)

\* Mutant: a PdfReadError is swallowed like the zero-page skip.
ReadOutcomeSwallowsReadError(p) ==
    CASE fs[p].kind \in {"missing", "dir", "locked"} -> "Exception"
      [] fs[p].kind \in {"bad", "enc", "partial"} -> "skip"
      [] fs[p].kind = "pdf" /\ Len(fs[p].pages) = 0 -> "skip"
      [] OTHER -> "pages"

\* What opening and reading input p does (lines 51-62): the exception raised,
\* or "skip" for a zero-page document, or "pages".
ReadOutcome(p) ==
    CASE fs[p].kind \in {"missing", "dir", "locked"} -> "Exception"
      [] fs[p].kind \in {"bad", "enc", "partial"} -> "PdfReadError"
      [] fs[p].kind = "pdf" /\ Len(fs[p].pages) = 0 -> "skip"
      [] OTHER -> "pages"

\* Mutant: the page loop runs from the last page down.
AddPagesReversed(writer, pages, k) ==
    writer \o [j \in 1..Len(pages) |-> pages[Len(pages) + 1 - j]]

\* The loop of lines 60-62: add_page for page_num = 0..n-1.
RECURSIVE AddPages(_, _, _)
AddPages(writer, pages, k) ==
    IF k > Len(pages) THEN writer
    ELSE AddPages(Append(writer, pages[k]), pages, k + 1)

\* --------------------------------------------------------- merge_pdfs
\* Mutant: the emptiness test of line 23 is left out.
ValidateArgsNoEmptyCheck ==
    /\ pc = "validate"
    /\ IF input_type # "list"
       THEN Raise("ValueError", NoPath)
       ELSE IF ~(\A k \in 1..Len(input_paths) : IsStr(input_paths[k]))
       THEN Raise("ValueError", NoPath)
       ELSE pc' = "check" /\ exc' = exc
    /\ UNCHANGED <<i, pdf_writer, log, fsVars, callVars, guiVars, workerVars>>

ValidateArgs ==
    /\ pc = "validate"
    /\ IF input_type # "list" \/ Len(input_paths) = 0
       THEN Raise("ValueError", NoPath)
       ELSE IF ~(\A k \in 1..Len(input_paths) : IsStr(input_paths[k]))
       THEN Raise("ValueError", NoPath)
       ELSE pc' = "check" /\ exc' = exc
    /\ UNCHANGED <<i, pdf_writer, log, fsVars, callVars, guiVars, workerVars>>

\* Mutant: the output file is opened for writing before the inputs are read.
CheckInputsOpensOutput ==
    /\ pc = "check"
    /\ LET bad == FirstBad(input_paths)
           n == IF bad = 0 THEN Len(input_paths) ELSE bad
       IN /\ log' = log \o [k \in 1..n |-> Ev("exists", k, 0)]
          /\ IF bad # 0
             THEN /\ Raise("FileNotFoundError", input_paths[bad])
                  /\ UNCHANGED <<i, pdf_writer, fs>>
             ELSE /\ pc' = "loop" /\ i' = 1 /\ pdf_writer' = <<>> /\ exc' = exc
                  /\ fs' = [fs EXCEPT ![output_path] = Truncated]
    /\ UNCHANGED <<dirs, callVars, guiVars, workerVars>>

CheckInputs ==
    /\ pc = "check"
    /\ LET bad == FirstBad(input_paths)
           n == IF bad = 0 THEN Len(input_paths) ELSE bad
       IN /\ log' = log \o [k \in 1..n |-> Ev("exists", k, 0)]
          /\ IF bad # 0
             THEN Raise("FileNotFoundError", input_paths[bad]) /\ UNCHANGED <<i, pdf_writer>>
             ELSE pc' = "loop" /\ i' = 1 /\ pdf_writer' = <<>> /\ exc' = exc
    /\ UNCHANGED <<fsVars, callVars, guiVars, workerVars>>

\* Mutant: the "Processing file" line is printed after the file is opened.
ProcessInputOpensFirst ==
    /\ pc = "loop"
    /\ i <= Len(input_paths)
    /\ LET p == input_paths[i]
           r == ReadOutcome(p)
           seen == log \o <<Ev("open_in", i, 0), Ev("progress", i, Len(input_paths))>>
       IN CASE r = "pages" ->
                 /\ pdf_writer' = AddPages(pdf_writer, fs[p].pages, 1)
                 /\ i' = i + 1
                 /\ log' = seen
                 /\ UNCHANGED <<pc, exc>>
            [] r = "skip" ->
                 /\ i' = i + 1
                 /\ log' = Append(seen, Ev("warn_empty", i, 0))
                 /\ UNCHANGED <<pc, exc, pdf_writer>>
            [] OTHER ->
                 /\ Raise(r, <<"", Basename(p)>>)
                 /\ log' = seen
                 /\ UNCHANGED <<i, pdf_writer>>
    /\ UNCHANGED <<fsVars, callVars, guiVars, workerVars>>

ProcessInput ==
    /\ pc = "loop"
    /\ i <= Len(input_paths)
    /\ LET p == input_paths[i]
           r == ReadOutcome(p)
           seen == log \o <<Ev("progress", i, Len(input_paths)), Ev("open_in", i, 0)>>
       IN CASE r = "pages" ->
                 /\ pdf_writer' = AddPages(pdf_writer, fs[p].pages, 1)
                 /\ i' = i + 1
                 /\ log' = seen
                 /\ UNCHANGED <<pc, exc>>
            [] r = "skip" ->
                 /\ i' = i + 1
                 /\ log' = Append(seen, Ev("warn_empty", i, 0))
                 /\ UNCHANGED <<pc, exc, pdf_writer>>
            [] OTHER ->
                 /\ Raise(r, <<"", Basename(p)>>)
                 /\ log' = seen
                 /\ UNCHANGED <<i, pdf_writer>>
    /\ UNCHANGED <<fsVars, callVars, guiVars, workerVars>>

\* Mutant: the raise of line 77 is live, an empty writer is an error.
PrepareOutputRaisesOnEmpty ==
    /\ pc = "loop"
    /\ i > Len(input_paths)
    /\ IF Len(pdf_writer) = 0
       THEN /\ Raise("ValueError", NoPath)
            /\ log' = Append(log, Ev("no_pages", 0, 0))
            /\ dirs' = dirs
       ELSE /\ pc' = "open"
            /\ IF Dirname(output_path) # "" /\ Dirname(output_path) \notin dirs
               THEN /\ dirs' = dirs \cup {Dirname(output_path)}
                    /\ log' = Append(log, Ev("makedirs", 0, 0))
               ELSE UNCHANGED <<dirs, log>>
            /\ exc' = exc
    /\ UNCHANGED <<fs, i, pdf_writer, callVars, guiVars, workerVars>>

PrepareOutput ==
    /\ pc = "loop"
    /\ i > Len(input_paths)
    /\ LET noted == IF Len(pdf_writer) = 0 THEN Append(log, Ev("no_pages", 0, 0)) ELSE log
           output_dir == Dirname(output_path)
       IN IF output_dir # "" /\ output_dir \notin dirs
          THEN \E ok \in BOOLEAN :
                 IF ok
                 THEN /\ dirs' = dirs \cup {output_dir}
                      /\ log' = Append(noted, Ev("makedirs", 0, 0))
                      /\ pc' = "open"
                      /\ exc' = exc
                 ELSE /\ Raise("IOError", <<output_dir, "">>)
                      /\ log' = noted
                      /\ dirs' = dirs
          ELSE /\ pc' = "open"
               /\ log' = noted
               /\ UNCHANGED <<dirs, exc>>
    /\ UNCHANGED <<fs, i, pdf_writer, callVars, guiVars, workerVars>>

OpenOutput ==
    /\ pc = "open"
    /\ \E ok \in BOOLEAN :
         IF ok /\ fs[output_path].kind # "dir"
         THEN /\ fs' = [fs EXCEPT ![output_path] = Truncated]
              /\ log' = Append(log, Ev("open_out", 0, 0))
              /\ pc' = "write"
              /\ exc' = exc
         ELSE /\ Raise("IOError", output_path)
              /\ UNCHANGED <<fs, log>>
    /\ UNCHANGED <<dirs, i, pdf_writer, callVars, guiVars, workerVars>>

WriteOutput ==
    /\ pc = "write"
    /\ \E ok \in BOOLEAN :
         IF ok
         THEN /\ fs' = [fs EXCEPT ![output_path] = Pdf(pdf_writer)]
              /\ log' = log \o <<Ev("write", Len(pdf_writer), 0),
                                 Ev("success", Len(input_paths), 0)>>
              /\ pc' = "returned"
              /\ exc' = exc
         ELSE /\ Raise("IOError", output_path)
              /\ UNCHANGED <<fs, log>>
    /\ UNCHANGED <<dirs, i, pdf_writer, callVars, guiVars, workerVars>>

MergeNext ==
    \/ ValidateArgs
    \/ CheckInputs
    \/ ProcessInput
    \/ PrepareOutput
    \/ OpenOutput
    \/ WriteOutput

\* ---------------------------------------------------------- MergeWorker
Signal(name, text, e) == [name |-> name, text |-> text, exc |-> e]

\* run(), lines 33-36: emit progress, then call merge_pdfs with the paths the
\* worker was constructed with.
WorkerRun ==
    /\ wpc = "run"
    /\ queue' = Append(queue, Signal("progress", <<"", "Starting merge...">>, NoExc))
    /\ emitted' = Append(emitted, "progress")
    /\ input_type' = "list"
    /\ input_paths' = w_input_paths
    /\ output_path' = w_output_path
    /\ fs0' = fs
    /\ dirs0' = dirs
    /\ pc' = "validate"
    /\ i' = 0
    /\ pdf_writer' = <<>>
    /\ exc' = NoExc
    /\ log' = <<>>
    /\ wpc' = "merging"
    /\ UNCHANGED <<fsVars, guiVars, w_input_paths, w_output_path, active>>

\* Mutant: finished is emitted whether or not merge_pdfs raised, after error.
WorkerEmitFinishedAlways ==
    /\ wpc = "merging"
    /\ pc \in {"returned", "raised"}
    /\ LET fin == Signal("finished", <<"", Basename(w_output_path)>>, NoExc)
       IN IF pc = "returned"
          THEN /\ queue' = Append(queue, fin)
               /\ emitted' = Append(emitted, "finished")
          ELSE /\ queue' = queue \o <<Signal("error", NoPath, exc), fin>>
               /\ emitted' = emitted \o <<"error", "finished">>
    /\ wpc' = "done"
    /\ active' = active - 1
    /\ input_paths' = <<>>
    /\ output_path' = NoPath
    /\ fs0' = fs
    /\ dirs0' = dirs
    /\ pc' = "idle"
    /\ i' = 0
    /\ pdf_writer' = <<>>
    /\ exc' = NoExc
    /\ log' = <<>>
    /\ UNCHANGED <<fsVars, input_type, guiVars, w_input_paths, w_output_path>>

\* run(), lines 39-43: finished on return, error on an exception; the frame of
\* merge_pdfs is gone.
WorkerEmit ==
    /\ wpc = "merging"
    /\ pc \in {"returned", "raised"}
    /\ LET name == IF pc = "returned" THEN "finished" ELSE "error"
           sig == IF pc = "returned"
                  THEN Signal("finished", <<"", Basename(w_output_path)>>, NoExc)
                  ELSE Signal("error", NoPath, exc)
       IN /\ queue' = Append(queue, sig)
          /\ emitted' = Append(emitted, name)
    /\ wpc' = "done"
    /\ active' = active - 1
    /\ input_paths' = <<>>
    /\ output_path' = NoPath
    /\ fs0' = fs
    /\ dirs0' = dirs
    /\ pc' = "idle"
    /\ i' = 0
    /\ pdf_writer' = <<>>
    /\ exc' = NoExc
    /\ log' = <<>>
    /\ UNCHANGED <<fsVars, input_type, guiVars, w_input_paths, w_output_path>>

\* ----------------------------------------------------------- MainWindow
\* What the two file dialogs offer.
GuiInputChoices == {<<"", "a.pdf">>, <<"", "b.pdf">>}
GuiOutputChoices == {<<"out", "a.pdf">>}

MergeButtonState(files, out) == files # <<>> /\ out # NoPath

select_input_pdfs ==
    /\ btn_select_input
    /\ msgbox = "none"
    /\ \E accepted \in BOOLEAN, files \in SeqsUpTo(GuiInputChoices, MaxLen) \ {<<>>} :
         IF accepted
         THEN /\ input_files' = files
              /\ label_status' = "files selected"
              /\ btn_merge' = MergeButtonState(files, output_file)
         ELSE UNCHANGED <<input_files, label_status, btn_merge>>
    /\ UNCHANGED <<output_file, btn_select_input, btn_select_output, msgbox,
                   fsVars, callVars, mergeVars, workerVars>>

select_output_pdf ==
    /\ btn_select_output
    /\ msgbox = "none"
    /\ \E accepted \in BOOLEAN, selected_files \in SeqsUpTo(GuiOutputChoices, 1) :
         IF accepted /\ selected_files # <<>>
         THEN /\ output_file' = selected_files[1]
              /\ label_status' = "Output"
              /\ btn_merge' = MergeButtonState(input_files, selected_files[1])
         ELSE UNCHANGED <<output_file, label_status, btn_merge>>
    /\ UNCHANGED <<input_files, btn_select_input, btn_select_output, msgbox,
                   fsVars, callVars, mergeVars, workerVars>>

\* Mutant: the Merge button is left enabled while the worker runs.
start_mergeKeepsButton ==
    /\ btn_merge
    /\ msgbox = "none"
    /\ IF input_files = <<>> \/ output_file = NoPath
       THEN UNCHANGED <<btn_merge, btn_select_input, btn_select_output, label_status,
                        w_input_paths, w_output_path, wpc, emitted, active>>
       ELSE /\ btn_merge' = btn_merge
            /\ btn_select_input' = FALSE
            /\ btn_select_output' = FALSE
            /\ label_status' = "Merging..."
            /\ w_input_paths' = input_files
            /\ w_output_path' = output_file
            /\ wpc' = "run"
            /\ emitted' = <<>>
            /\ active' = active + 1
    /\ UNCHANGED <<input_files, output_file, msgbox, queue, fsVars, callVars, mergeVars>>

start_merge ==
    /\ btn_merge
    /\ msgbox = "none"
    /\ IF input_files = <<>> \/ output_file = NoPath
       THEN UNCHANGED <<btn_merge, btn_select_input, btn_select_output, label_status,
                        w_input_paths, w_output_path, wpc, emitted, active>>
       ELSE /\ btn_merge' = FALSE
            /\ btn_select_input' = FALSE
            /\ btn_select_output' = FALSE
            /\ label_status' = "Merging..."
            /\ w_input_paths' = input_files
            /\ w_output_path' = output_file
            /\ wpc' = "run"
            /\ emitted' = <<>>
            /\ active' = active + 1
    /\ UNCHANGED <<input_files, output_file, msgbox, queue, fsVars, callVars, mergeVars>>

update_status ==
    /\ queue # <<>>
    /\ Head(queue).name = "progress"
    /\ label_status' = "Starting merge..."
    /\ queue' = Tail(queue)
    /\ UNCHANGED <<input_files, output_file, btn_merge, btn_select_input,
                   btn_select_output, msgbox, fsVars, callVars, mergeVars,
                   w_input_paths, w_output_path, wpc, emitted, active>>

merge_finished ==
    /\ queue # <<>>
    /\ Head(queue).name = "finished"
    /\ msgbox = "none"
    /\ label_status' = "Done"
    /\ msgbox' = "information"
    /\ queue' = Tail(queue)
    /\ UNCHANGED <<input_files, output_file, btn_merge, btn_select_input,
                   btn_select_output, fsVars, callVars, mergeVars,
                   w_input_paths, w_output_path, wpc, emitted, active>>

merge_error ==
    /\ queue # <<>>
    /\ Head(queue).name = "error"
    /\ msgbox = "none"
    /\ label_status' = "Error"
    /\ msgbox' = "critical"
    /\ queue' = Tail(queue)
    /\ UNCHANGED <<input_files, output_file, btn_merge, btn_select_input,
                   btn_select_output, fsVars, callVars, mergeVars,
                   w_input_paths, w_output_path, wpc, emitted, active>>

\* The message box of merge_finished / merge_error is dismissed and the slot
\* goes on to reset_ui_state.
reset_ui_state ==
    /\ msgbox # "none"
    /\ msgbox' = "none"
    /\ btn_select_input' = TRUE
    /\ btn_select_output' = TRUE
    /\ btn_merge' = MergeButtonState(input_files, output_file)
    /\ UNCHANGED <<input_files, output_file, label_status,
                   fsVars, callVars, mergeVars, workerVars>>

GuiNext ==
    \/ select_input_pdfs
    \/ select_output_pdf
    \/ start_merge
    \/ WorkerRun
    \/ WorkerEmit
    \/ update_status
    \/ merge_finished
    \/ merge_error
    \/ reset_ui_state

\* ------------------------------------------------- the initial states
\* The files a call can see: every path either does not exist, is a
\* directory, or holds one of the contents of InitContent; a file exists
\* only in a directory that exists.
FsStates ==
    {f \in [Paths -> UNION {InitContent(p) : p \in Paths}] :
        \A p \in Paths : f[p] \in InitContent(p)}

FsOk(f, d) ==
    \A p \in Paths : Dirname(p) # "" /\ Dirname(p) \notin d => f[p] = Missing

Used(paths, out) == {paths[k] : k \in 1..Len(paths)} \cup {out}

GuiInit ==
    /\ input_files = <<>>
    /\ output_file = NoPath
    /\ btn_merge = FALSE
    /\ btn_select_input = TRUE
    /\ btn_select_output = TRUE
    /\ label_status = "Ready"
    /\ msgbox = "none"
    /\ w_input_paths = <<>>
    /\ w_output_path = NoPath
    /\ wpc = "none"
    /\ queue = <<>>
    /\ emitted = <<>>
    /\ active = 0

\* A direct call merge_pdfs(input_paths, output_path), as the examples of
\* lines 138-199 make it.
Init ==
    /\ input_type \in {"list", "str"}
    /\ input_paths \in SeqsUpTo(Paths \cup {NonStr}, MaxLen)
    /\ input_type = "str" => input_paths = <<>>
    /\ output_path \in Paths
    /\ dirs \in SUBSET OutDirs
    /\ fs \in FsStates
    /\ FsOk(fs, dirs)
    /\ \A p \in Paths \ Used(input_paths, output_path) : fs[p] = Missing
    /\ fs0 = fs
    /\ dirs0 = dirs
    /\ pc = "validate"
    /\ i = 0
    /\ pdf_writer = <<>>
    /\ exc = NoExc
    /\ log = <<>>
    /\ GuiInit

Next == MergeNext

Spec == Init /\ [][Next]_vars

\* The window after MainWindow.__init__, no merge called yet.  The files are
\* absent or PDFs of at most one page: a merge through the window can fail
\* (a file that is gone, an output that cannot be written), skip a zero-page
\* input, or succeed.
InitGui ==
    /\ input_type = "list"
    /\ input_paths = <<>>
    /\ output_path = NoPath
    /\ dirs \in SUBSET OutDirs
    /\ fs \in FsStates
    /\ FsOk(fs, dirs)
    /\ \A p \in Paths : fs[p].kind \in {"missing", "pdf"} /\ Len(fs[p].pages) <= 1
    /\ fs0 = fs
    /\ dirs0 = dirs
    /\ pc = "idle"
    /\ i = 0
    /\ pdf_writer = <<>>
    /\ exc = NoExc
    /\ log = <<>>
    /\ GuiInit

NextGui == GuiNext \/ MergeNext

SpecGui == InitGui /\ [][NextGui]_vars

\* The worker thread and the window's event loop keep running: a step of
\* run(), of merge_pdfs or of a slot with a queued signal is eventually taken.
\* Nothing obliges the user to click.
Fairness ==
    /\ WF_vars(WorkerRun)
    /\ WF_vars(MergeNext)
    /\ WF_vars(WorkerEmit)
    /\ WF_vars(update_status)
    /\ WF_vars(merge_finished)
    /\ WF_vars(merge_error)
    /\ WF_vars(reset_ui_state)

SpecGuiLive == InitGui /\ [][NextGui]_vars /\ Fairness

\* ------------------------------------------------------------ claims
Done == pc \in {"returned", "raised"}

HasEv(kind, a) == \E n \in 1..Len(log) : log[n][1] = kind /\ log[n][2] = a
NoEv(kind) == \A n \in 1..Len(log) : log[n][1] # kind

\* The inputs as they were when merge_pdfs was called.
Before(k) == fs0[input_paths[k]]
ArgsWellFormed ==
    /\ input_type = "list"
    /\ Len(input_paths) > 0
    /\ \A k \in 1..Len(input_paths) : IsStr(input_paths[k])
BadPath(k) == Before(k).kind \in {"missing", "dir"}
AllPresent == \A k \in 1..Len(input_paths) : ~BadPath(k)
Unreadable(k) == Before(k).kind \in {"bad", "enc", "locked", "partial"}
ZeroPage(k) == Before(k).kind = "pdf" /\ Len(Before(k).pages) = 0

RECURSIVE PagesBefore(_)
PagesBefore(k) ==
    IF k <= 1 THEN 0 ELSE PagesBefore(k - 1) + Len(Before(k - 1).pages)

OutputUntouched == fs = fs0 /\ dirs = dirs0

\* C1: a merge that returns has written, at output_path, a document whose
\* pages are the inputs' pages in list order and, within an input, in
\* document order: page j of input k sits at position (pages of the inputs
\* before k) + j, and the page count is the sum of the inputs' page counts.
C1_OutputIsConcatenation ==
    pc = "returned" =>
        LET out == fs[output_path]
            n == Len(input_paths)
        IN /\ n > 0
           /\ out.kind = "pdf"
           /\ Len(out.pages) = PagesBefore(n + 1)
           /\ \A k \in 1..n : \A j \in 1..Len(Before(k).pages) :
                  out.pages[PagesBefore(k) + j] = Before(k).pages[j]

C1_Witness ==
    /\ pc = "returned"
    /\ Len(input_paths) = 2
    /\ input_paths[1] # input_paths[2]
    /\ Len(Before(1).pages) = 2
    /\ Len(Before(2).pages) >= 1
    /\ fs[output_path].pages[3] = <<input_paths[2], 0>>

C3_NeverTruncated ==
    Done => \/ fs[output_path] = fs0[output_path]
            \/ fs[output_path] = Pdf(pdf_writer)

\* C4: with a well-formed argument list, if some path does not exist or is
\* not a regular file the call raises FileNotFoundError naming the first such
\* path, before any input is opened and without creating the output file or
\* its directory.
C4_MissingInputRejected ==
    (ArgsWellFormed /\ ~AllPresent) =>
        /\ NoEv("open_in") /\ NoEv("progress")
        /\ NoEv("makedirs") /\ NoEv("open_out") /\ NoEv("write")
        /\ OutputUntouched
        /\ pc \in {"validate", "check", "raised"}
        /\ pc = "raised" =>
              /\ exc.type = "FileNotFoundError"
              /\ \E k \in 1..Len(input_paths) :
                    /\ BadPath(k)
                    /\ \A j \in 1..(k - 1) : ~BadPath(j)
                    /\ exc.name = input_paths[k]

C4_Witness ==
    /\ pc = "raised"
    /\ exc.type = "FileNotFoundError"
    /\ Len(input_paths) = 2
    /\ Before(1).kind = "pdf"
    /\ Before(2).kind = "dir"
    /\ exc.name = input_paths[2]

\* C5: a call whose input_paths is not a list, is empty, or holds a
\* non-string raises ValueError and touches no file: no existence check, no
\* input open, no directory creation, no output write.
C5_BadArgumentsRejected ==
    ~ArgsWellFormed =>
        /\ log = <<>>
        /\ OutputUntouched
        /\ pc \in {"validate", "raised"}
        /\ pc = "raised" => exc.type = "ValueError"

C5_Witness ==
    /\ pc = "raised"
    /\ exc.type = "ValueError"
    /\ input_type = "list"
    /\ Len(input_paths) = 2
    /\ IsStr(input_paths[1])
    /\ ~IsStr(input_paths[2])

AllZeroPage ==
    ArgsWellFormed /\ \A k \in 1..Len(input_paths) : ZeroPage(k)

\* C6 as the specification states it: when every input is a zero-page
\* document the merge fails with EmptyOutput and writes no output.
C6_EmptyOutputRaised ==
    (AllZeroPage /\ Done) =>
        /\ pc = "raised"
        /\ exc.type = "EmptyOutput"
        /\ fs[output_path] = fs0[output_path]

\* C6, amended: when every input is a zero-page document, merge_pdfs prints
\* the "No pages were added" notice and goes on to write the output: the
\* only errors it can then raise are those of creating the directory or
\* writing the file, and a call that returns has written a zero-page
\* document at output_path.
C6_EmptyOutputWritten ==
    (AllZeroPage /\ (Done \/ pc \in {"open", "write"})) =>
        /\ HasEv("no_pages", 0)
        /\ pdf_writer = <<>>
        /\ pc = "raised" => exc.type = "IOError"
        /\ pc = "returned" => fs[output_path] = Pdf(<<>>)

C6_Witness ==
    /\ AllZeroPage
    /\ Len(input_paths) = 2
    /\ pc = "returned"
    /\ fs0[output_path].kind = "missing"
    /\ fs[output_path] = Pdf(<<>>)

\* The pages of the first k inputs, the zero-page ones left out.
RECURSIVE NonEmptyPages(_)
NonEmptyPages(k) ==
    IF k = 0 THEN <<>>
    ELSE IF ZeroPage(k) THEN NonEmptyPages(k - 1)
    ELSE NonEmptyPages(k - 1) \o Before(k).pages

\* C7: a zero-page input is skipped with a warning and the merge goes on:
\* every input the loop has passed without raising is a readable PDF, a
\* warning is printed for input k exactly when k was passed and has zero
\* pages, the writer holds the pages of the other inputs passed so far in
\* their order, and once the loop has ended every input has been opened.
C7_ZeroPageSkipped ==
    (pc \in {"loop", "open", "write", "returned"}) =>
        /\ \A k \in 1..(i - 1) :
              /\ Before(k).kind = "pdf"
              /\ HasEv("open_in", k)
              /\ HasEv("warn_empty", k) <=> ZeroPage(k)
        /\ \A k \in i..Len(input_paths) : ~HasEv("warn_empty", k)
        /\ pdf_writer = NonEmptyPages(i - 1)
        /\ pc # "loop" => i = Len(input_paths) + 1

C7_Witness ==
    /\ pc = "returned"
    /\ Len(input_paths) = 2
    /\ ZeroPage(1)
    /\ Len(Before(2).pages) = 2
    /\ HasEv("warn_empty", 1)
    /\ fs[output_path] = Pdf(Before(2).pages)

Count(seq, x) == Cardinality({n \in 1..Len(seq) : seq[n] = x})

C10_SingleMerge ==
    /\ active \in {0, 1}
    /\ active = 1 <=> wpc \in {"run", "merging"}
    /\ pc # "idle" => wpc = "merging"
    /\ btn_merge =>
          /\ input_files # <<>>
          /\ output_file # NoPath
          /\ active = 0
    /\ active = 1 =>
          /\ ~btn_merge /\ ~btn_select_input /\ ~btn_select_output
          /\ input_files = w_input_paths
          /\ output_file = w_output_path
    /\ (queue # <<>> \/ msgbox # "none") =>
          ~btn_merge /\ ~btn_select_input /\ ~btn_select_output

C10_Witness ==
    /\ active = 1
    /\ pc = "write"
    /\ Len(w_input_paths) = 2
    /\ ~btn_merge

====
